---- MODULE Spec2Model ----
(***************************************************************************)
(* Model of the character_frequency crate: one call of a counting function *)
(* of the library (src/src/lib.rs) or of the binary (src/src/main.rs) on a *)
(* text, with its counting threads, its adding threads, the mpsc channel   *)
(* and the loop of the calling thread that collects the results.           *)
(***************************************************************************)
EXTENDS Integers, Sequences, FiniteSets, TLC

(* ---------------------------------------------------------------------- *)
(* Bounds of the model                                                     *)
(* ---------------------------------------------------------------------- *)
\* longest text, in characters
MaxLen == 2
\* largest worker count passed to the API
MaxThreads == 4
\* width of usize in the model (the arithmetic is modulo 2^UsizeBits)
UsizeBits == 8

\* largest count in a map passed to add_frequencies on its own
MaxCount == 1

UsizeMod == 2 ^ UsizeBits

(* ---------------------------------------------------------------------- *)
(* Characters                                                              *)
(*   "A" U+0041, "a" U+0061: an ASCII upper/lower pair, 1 byte each        *)
(*   "SIGMA" U+03A3, "sigma" U+03C3: a non-ASCII pair, 2 bytes each        *)
(*   "IDOT" U+0130: its lowercase is the two characters U+0069 U+0307      *)
(* ---------------------------------------------------------------------- *)
Chars == {"A", "a", "SIGMA", "sigma", "IDOT"}

\* number of bytes of the UTF-8 encoding of a character (str::len counts these)
len_utf8(ch) == IF ch \in {"A", "a"} THEN 1 ELSE 2

\* char::to_lowercase: the sequence of characters of the lowercase form
to_lowercase(ch) ==
    CASE ch = "A" -> <<"a">>
      [] ch = "a" -> <<"a">>
      [] ch = "SIGMA" -> <<"sigma">>
      [] ch = "sigma" -> <<"sigma">>
      [] ch = "IDOT" -> <<"i", "COMBINING_DOT_ABOVE">>

\* a bug: the full lowercase form where the ASCII one is meant
to_ascii_lowercase_full(ch) == Head(to_lowercase(ch))

\* char::to_ascii_lowercase
to_ascii_lowercase(ch) == IF ch = "A" THEN "a" ELSE ch

CaseSense == {"Insensitive", "InsensitiveASCIIOnly", "Sensitive"}

\* str::len of the text: its length in bytes
RECURSIVE str_len(_)
str_len(t) == IF t = <<>> THEN 0 ELSE len_utf8(Head(t)) + str_len(Tail(t))

(* ---------------------------------------------------------------------- *)
(* usize arithmetic: a build with overflow checks panics on overflow, a    *)
(* build without them wraps.  A result is [panic, val].                    *)
(* ---------------------------------------------------------------------- *)
Ok(v) == [panic |-> FALSE, val |-> v]
Panic == [panic |-> TRUE, val |-> 0]

usize_sub(a, b, checks) ==
    IF a >= b THEN Ok(a - b)
    ELSE IF checks THEN Panic ELSE Ok((a - b) % UsizeMod)

usize_add(a, b, checks) ==
    IF a + b < UsizeMod THEN Ok(a + b)
    ELSE IF checks THEN Panic ELSE Ok((a + b) % UsizeMod)

(* ---------------------------------------------------------------------- *)
(* Frequency maps: HashMap<char, usize> as a function on its key set       *)
(* ---------------------------------------------------------------------- *)
EmptyMap == [c \in {} |-> 0]

\* a bug: the count is stored, not added (insert where += is meant)
entry_add_overwrite(m, ch, n) ==
    [c \in DOMAIN m \cup {ch} |-> IF c = ch THEN n ELSE m[c]]

\* *map.entry(character).or_insert(0) += n
entry_add(m, ch, n) ==
    [c \in DOMAIN m \cup {ch} |->
        (IF c \in DOMAIN m THEN m[c] ELSE 0) + (IF c = ch THEN n ELSE 0)]

\* a bug: the first character of the lowercase form, whatever its length
fold_char_first(ch, case_sense) ==
    CASE case_sense = "Insensitive" -> Ok(Head(to_lowercase(ch)))
      [] case_sense = "InsensitiveASCIIOnly" -> Ok(to_ascii_lowercase(ch))
      [] case_sense = "Sensitive" -> Ok(ch)

\* the closure of the map() adapter: the counted form of one character
fold_char(ch, case_sense) ==
    CASE case_sense = "Insensitive" ->
            IF Len(to_lowercase(ch)) = 1 THEN Ok(Head(to_lowercase(ch))) ELSE Panic
      [] case_sense = "InsensitiveASCIIOnly" -> Ok(to_ascii_lowercase(ch))
      [] case_sense = "Sensitive" -> Ok(ch)

\* a bug: the range taken as one-based, one character too few skipped
iter_skip_one_based(s, n) ==
    IF n = 0 THEN s ELSE IF n - 1 >= Len(s) THEN <<>> ELSE SubSeq(s, n, Len(s))

\* Iterator::skip(n) and Iterator::take(n) on the characters of the text
iter_skip(s, n) == IF n >= Len(s) THEN <<>> ELSE SubSeq(s, n + 1, Len(s))
iter_take(s, n) == IF n >= Len(s) THEN s ELSE SubSeq(s, 1, n)

\* the for loop over the folded characters: [panic, val] with val the map
RECURSIVE count_loop(_, _, _)
count_loop(s, case_sense, frequency_map) ==
    IF s = <<>> THEN Ok(frequency_map)
    ELSE LET f == fold_char(Head(s), case_sense)
         IN  IF f.panic THEN [panic |-> TRUE, val |-> EmptyMap]
             ELSE count_loop(Tail(s), case_sense, entry_add(frequency_map, f.val, 1))

\* a bug: the + 1 of the inclusive end is forgotten
take_count_exclusive(from, to, checks) == usize_sub(to, from, checks)

\* the number of items take() is asked for: to - from + 1
take_count(from, to, checks) ==
    LET d == usize_sub(to, from, checks)
    IN  IF d.panic THEN Panic ELSE usize_add(d.val, 1, checks)

character_frequencies_range(t, from, to, case_sense, checks) ==
    LET n == take_count(from, to, checks)
    IN  IF n.panic THEN [panic |-> TRUE, val |-> EmptyMap]
        ELSE count_loop(iter_take(iter_skip(t, from), n.val), case_sense, EmptyMap)

\* for (character, frequency) in b { *out.entry(character).or_insert(0) += frequency }
RECURSIVE add_loop(_, _, _)
add_loop(out, b, keys) ==
    IF keys = {} THEN out
    ELSE LET ch == CHOOSE c \in keys : TRUE
         IN  add_loop(entry_add(out, ch, b[ch]), b, keys \ {ch})

\* a bug: a count of b is stored only where a has no entry (or_insert(frequency))
add_frequencies_insert_only(a, b) ==
    [c \in DOMAIN a \cup DOMAIN b |-> IF c \in DOMAIN a THEN a[c] ELSE b[c]]

add_frequencies(a, b) == add_loop(a, b, DOMAIN b)

\* sequential_character_frequencies_w_case: one pass over (0, text.len() - 1)
sequential_character_frequencies_w_case(t, case_sense, checks) ==
    LET to == usize_sub(str_len(t), 1, checks)
    IN  IF to.panic THEN [panic |-> TRUE, val |-> EmptyMap]
        ELSE character_frequencies_range(t, 0, to.val, case_sense, checks)

\* sequential_character_frequencies: the same with the default mode
sequential_character_frequencies(t, checks) ==
    sequential_character_frequencies_w_case(t, "InsensitiveASCIIOnly", checks)

(* ---------------------------------------------------------------------- *)
(* State of one call                                                       *)
(* ---------------------------------------------------------------------- *)
VARIABLES
    api,                    \* the function that was called
    text,                   \* the characters of the text argument
    threads,                \* the threads argument (main.rs raises 0 to 1)
    case,                   \* the CaseSense argument
    overflow_checks,        \* the build: TRUE panics on overflow, FALSE wraps
    pc,                     \* position of the calling thread
    chunk_size,
    threads_with_more_data,
    threads_with_less_data,
    from,                   \* start of the next range to hand out
    i,                      \* iterations done in the current for loop
    ranges,                 \* the (from, size) handed to the counting threads, in order
    tasks,                  \* spawned threads that have neither sent nor panicked
    chan,                   \* the mpsc channel: maps sent and not yet received
    received,               \* the Vec of the library's collector loop
    waiting_num,
    adders,                 \* adding threads spawned so far
    panicked,               \* ids of the spawned threads that panicked
    out,                    \* main.rs: the accumulator; the returned map once pc = "done"
    chan_depth,             \* history: for each map of chan, the add_frequencies nested in it
    received_depth,         \* history: the same for each map of received
    out_depth,              \* history: the same for out
    sent,                   \* history: thread id -> number of maps it has sent
    nrecv                   \* history: number of rx.recv() that have returned

vars == <<api, text, threads, case, overflow_checks, pc, chunk_size,
          threads_with_more_data, threads_with_less_data, from, i, ranges,
          tasks, chan, received, waiting_num, adders, panicked, out,
          chan_depth, received_depth, out_depth, sent, nrecv>>

inputs == <<api, text, case, overflow_checks>>
plan == <<chunk_size, threads_with_more_data, threads_with_less_data>>
spawning == <<from, i, ranges>>
collecting == <<received, waiting_num, adders>>
depths == <<chan_depth, received_depth, out_depth>>
history == <<depths, sent, nrecv>>

Texts == UNION {[1..n -> Chars] : n \in 0..MaxLen}

LibParallel == "character_frequencies_with_n_threads_w_case"
BinParallel == "parallel_character_frequencies"

Apis == {LibParallel, BinParallel,
         "sequential_character_frequencies_w_case",
         "sequential_character_frequencies"}

Max(a, b) == IF a >= b THEN a ELSE b

\* a bug: only threads == 1 takes the sequential path
takes_sequential_path_one(n) == n = 1

\* if threads <= 1 { return sequential_character_frequencies_w_case(text, case); }
takes_sequential_path(n) == n <= 1

\* main.rs folds ASCII case only; sequential_character_frequencies passes the default
Init ==
    /\ api \in Apis
    /\ text \in Texts
    /\ overflow_checks \in BOOLEAN
    /\ threads \in IF api \in {LibParallel, BinParallel} THEN 0..MaxThreads ELSE {1}
    /\ case \in IF api \in {BinParallel, "sequential_character_frequencies"}
                THEN {"InsensitiveASCIIOnly"} ELSE CaseSense
    /\ pc = "entry"
    /\ chunk_size = 0
    /\ threads_with_more_data = 0
    /\ threads_with_less_data = 0
    /\ from = 0
    /\ i = 0
    /\ ranges = <<>>
    /\ tasks = {}
    /\ chan = <<>>
    /\ received = <<>>
    /\ waiting_num = 0
    /\ adders = 0
    /\ panicked = {}
    /\ out = EmptyMap
    /\ chan_depth = <<>>
    /\ received_depth = <<>>
    /\ out_depth = 0
    /\ sent = [id \in {} |-> 0]
    /\ nrecv = 0

\* the calling thread ends with the value or the panic of a sequential pass
Finish(r) ==
    /\ pc' = IF r.panic THEN "panicked" ELSE "done"
    /\ out' = r.val
    /\ UNCHANGED <<inputs, threads, plan, spawning, tasks, chan, collecting, panicked,
                   history>>

\* sequential_character_frequencies and sequential_character_frequencies_w_case
SequentialCall ==
    /\ pc = "entry"
    /\ api \notin {LibParallel, BinParallel}
    /\ Finish(IF api = "sequential_character_frequencies"
              THEN sequential_character_frequencies(text, overflow_checks)
              ELSE sequential_character_frequencies_w_case(text, case, overflow_checks))

\* character_frequencies_with_n_threads_w_case with threads <= 1
SequentialFallback ==
    /\ pc = "entry"
    /\ api = LibParallel
    /\ takes_sequential_path(threads)
    /\ Finish(sequential_character_frequencies_w_case(text, case, overflow_checks))

\* a bug: the chunk size without its floor of 1
plan_chunk_size_nofloor(length, n) == length \div n

\* chunk_size, threads_with_more_data and threads_with_less_data of the call
plan_chunk_size(length, n) == Max(1, length \div n)
\* a bug: the quotient where the remainder is meant
plan_more_data_div(length, n) == length \div n
plan_more_data(length, n) == length % n
\* a bug: every thread counted as a lighter one
plan_less_data_all(length, n) == n
plan_less_data(length, n) == n - plan_more_data(length, n)

\* main.rs: if threads < 1 { threads = 1; }
clamp_threads(n) == IF n < 1 THEN 1 ELSE n

\* the next position of the calling thread after one spawn
after_spawn(loop, done, less, more) ==
    IF loop = "spawn_less"
    THEN IF done < less THEN "spawn_less" ELSE IF more > 0 THEN "spawn_more" ELSE "collect"
    ELSE IF done < more THEN "spawn_more" ELSE "collect"

\* the parallel path up to the first spawn loop (a division by zero panics)
PlanRanges ==
    /\ pc = "entry"
    /\ \/ api = LibParallel /\ ~takes_sequential_path(threads) /\ UNCHANGED threads
       \/ api = BinParallel /\ threads' = clamp_threads(threads)
    /\ IF threads' = 0
       THEN /\ pc' = "panicked"
            /\ UNCHANGED plan
       ELSE /\ pc' = "spawn_less"
            /\ chunk_size' = plan_chunk_size(str_len(text), threads')
            /\ threads_with_more_data' = plan_more_data(str_len(text), threads')
            /\ threads_with_less_data' = plan_less_data(str_len(text), threads')
    /\ UNCHANGED <<inputs, spawning, tasks, chan, collecting, panicked, out,
                   history>>

\* depth: the add_frequencies calls nested in the map the thread sends
CountTask(id, f, size) ==
    [id |-> id, kind |-> "count", from |-> f, size |-> size, a |-> EmptyMap, b |-> EmptyMap,
     depth |-> 0]
AddTask(id, a, b, da, db) ==
    [id |-> id, kind |-> "add", from |-> 0, size |-> 0, a |-> a, b |-> b,
     depth |-> 1 + Max(da, db)]

\* generate_counting_thread(from, size, ..); from += size;
generate_counting_thread(size) ==
    /\ tasks' = tasks \cup {CountTask(Len(ranges) + 1, from, size)}
    /\ ranges' = Append(ranges, [from |-> from, size |-> size])
    /\ from' = from + size

\* a bug: the wait count starts one short
enter_collect_one_short(next) ==
    /\ pc' = IF next = "collect" THEN (IF api = LibParallel THEN "loop" ELSE "first") ELSE next
    /\ i' = IF next = pc THEN i + 1 ELSE 0
    /\ waiting_num' = IF next = "collect" /\ api = LibParallel THEN threads - 1 ELSE waiting_num

\* let mut waiting_num: usize = threads; (library, once the spawn loops are done)
enter_collect(next) ==
    /\ pc' = IF next = "collect" THEN (IF api = LibParallel THEN "loop" ELSE "first") ELSE next
    /\ i' = IF next = pc THEN i + 1 ELSE 0
    /\ waiting_num' = IF next = "collect" /\ api = LibParallel THEN threads ELSE waiting_num

\* for _ in 0..threads_with_less_data
SpawnLess ==
    /\ pc = "spawn_less"
    /\ i < threads_with_less_data
    /\ generate_counting_thread(chunk_size)
    /\ enter_collect(after_spawn("spawn_less", i + 1, threads_with_less_data,
                                 threads_with_more_data))
    /\ UNCHANGED <<inputs, threads, plan, chan, received, adders, panicked, out, history>>

\* for _ in 0..threads_with_more_data
SpawnMore ==
    /\ pc = "spawn_more"
    /\ i < threads_with_more_data
    /\ generate_counting_thread(chunk_size + 1)
    /\ enter_collect(after_spawn("spawn_more", i + 1, threads_with_less_data,
                                 threads_with_more_data))
    /\ UNCHANGED <<inputs, threads, plan, chan, received, adders, panicked, out, history>>

\* the receiver lives until the calling thread leaves the function
receiver_alive == pc \notin {"done", "panicked"}

\* a bug: the range end taken as exclusive
range_to_exclusive(f, size, checks) == usize_add(f, size, checks)

\* the last position of a counting thread's range: from + chunk_size - 1
range_to(f, size, checks) ==
    LET e == usize_add(f, size, checks)
    IN  IF e.panic THEN Panic ELSE usize_sub(e.val, 1, checks)

\* the body of a spawned thread: [panic, val] with val the map it sends
thread_body(t) ==
    IF t.kind = "count"
    THEN LET to == range_to(t.from, t.size, overflow_checks)
         IN  IF to.panic THEN [panic |-> TRUE, val |-> EmptyMap]
             ELSE character_frequencies_range(text, t.from, to.val, case, overflow_checks)
    ELSE Ok(add_frequencies(t.a, t.b))

\* a bug: the map is sent twice
thread_sends_twice(m) == <<m, m>>

\* what a spawned thread puts on the channel: tx.send(frequencies).unwrap(), once
thread_sends(m) == <<m>>

\* a spawned thread computes its map and tx.send(..).unwrap() succeeds
ThreadSends(t) ==
    /\ t \in tasks
    /\ receiver_alive
    /\ tasks' = tasks \ {t}
    /\ LET r == thread_body(t)
           msgs == thread_sends(r.val)
       IN  /\ ~r.panic
           /\ chan' = chan \o msgs
           /\ chan_depth' = chan_depth \o [k \in DOMAIN msgs |-> t.depth]
           /\ sent' = [id \in DOMAIN sent \cup {t.id} |->
                         (IF id \in DOMAIN sent THEN sent[id] ELSE 0)
                         + (IF id = t.id THEN Len(msgs) ELSE 0)]
    /\ UNCHANGED <<inputs, threads, plan, pc, spawning, collecting, panicked, out,
                   received_depth, out_depth, nrecv>>

\* a spawned thread panics (in its body, or in unwrap when the receiver is gone):
\* it ends without sending, and its Sender clone is dropped
ThreadPanics(t) ==
    /\ t \in tasks
    /\ ~receiver_alive \/ thread_body(t).panic
    /\ tasks' = tasks \ {t}
    /\ panicked' = panicked \cup {t.id}
    /\ UNCHANGED <<inputs, threads, plan, pc, spawning, chan, collecting, out,
                   history>>

\* received.push(rx.recv().unwrap()); waiting_num -= 1;
\* recv blocks while the channel is empty: the calling thread owns tx, so the
\* channel never reports disconnection
Recv ==
    /\ pc = "loop"
    /\ waiting_num > 0
    /\ chan # <<>>
    /\ received' = Append(received, Head(chan))
    /\ chan' = Tail(chan)
    /\ waiting_num' = waiting_num - 1
    /\ pc' = "pair"
    /\ received_depth' = Append(received_depth, Head(chan_depth))
    /\ chan_depth' = Tail(chan_depth)
    /\ nrecv' = nrecv + 1
    /\ UNCHANGED <<inputs, threads, plan, spawning, tasks, adders, panicked, out,
                   out_depth, sent>>

\* a bug: pairing waits for a third map
pair_ready_three(vec) == Len(vec) > 2

\* if received.len() >= 2
pair_ready(vec) == Len(vec) >= 2

\* generate_adding_thread(received.pop().unwrap(), received.pop().unwrap(), ..);
\* waiting_num += 1;
PairSpawn ==
    /\ pc = "pair"
    /\ pair_ready(received)
    /\ tasks' = tasks \cup {AddTask(threads + adders + 1, received[Len(received)],
                                    received[Len(received) - 1],
                                    received_depth[Len(received)],
                                    received_depth[Len(received) - 1])}
    /\ received' = SubSeq(received, 1, Len(received) - 2)
    /\ received_depth' = SubSeq(received_depth, 1, Len(received) - 2)
    /\ adders' = adders + 1
    /\ waiting_num' = waiting_num + 1
    /\ pc' = "loop"
    /\ UNCHANGED <<inputs, threads, plan, spawning, chan, panicked, out,
                   chan_depth, out_depth, sent, nrecv>>

\* fewer than two maps held: back to the loop test
PairSkip ==
    /\ pc = "pair"
    /\ ~pair_ready(received)
    /\ pc' = "loop"
    /\ UNCHANGED <<inputs, threads, plan, spawning, tasks, chan, collecting, panicked, out,
                   history>>

\* while waiting_num > 0 is false: received.pop().unwrap()
Return ==
    /\ pc = "loop"
    /\ waiting_num = 0
    /\ IF received = <<>>
       THEN pc' = "panicked" /\ UNCHANGED <<received, out, received_depth, out_depth>>
       ELSE /\ pc' = "done"
            /\ out' = received[Len(received)]
            /\ received' = SubSeq(received, 1, Len(received) - 1)
            /\ out_depth' = received_depth[Len(received)]
            /\ received_depth' = SubSeq(received_depth, 1, Len(received) - 1)
    /\ UNCHANGED <<inputs, threads, plan, spawning, tasks, chan, waiting_num, adders,
                   panicked, chan_depth, sent, nrecv>>

\* main.rs: let mut out = rx.recv().unwrap();
BinRecvFirst ==
    /\ pc = "first"
    /\ chan # <<>>
    /\ out' = Head(chan)
    /\ chan' = Tail(chan)
    /\ pc' = IF threads - 1 > 0 THEN "fold" ELSE "done"
    /\ out_depth' = Head(chan_depth)
    /\ chan_depth' = Tail(chan_depth)
    /\ nrecv' = nrecv + 1
    /\ UNCHANGED <<inputs, threads, plan, spawning, tasks, collecting, panicked,
                   received_depth, sent>>

\* a bug: the received map replaces the accumulator
BinFoldKeepsLast ==
    /\ pc = "fold"
    /\ i < threads - 1
    /\ chan # <<>>
    /\ out' = Head(chan)
    /\ chan' = Tail(chan)
    /\ i' = i + 1
    /\ pc' = IF i + 1 < threads - 1 THEN "fold" ELSE "done"
    /\ out_depth' = Head(chan_depth)
    /\ chan_depth' = Tail(chan_depth)
    /\ nrecv' = nrecv + 1
    /\ UNCHANGED <<inputs, threads, plan, from, ranges, tasks, collecting, panicked,
                   received_depth, sent>>

\* main.rs: for _ in 0..threads-1 { out = add_frequencies(out, rx.recv().unwrap()); }
BinFold ==
    /\ pc = "fold"
    /\ i < threads - 1
    /\ chan # <<>>
    /\ out' = add_frequencies(out, Head(chan))
    /\ chan' = Tail(chan)
    /\ i' = i + 1
    /\ pc' = IF i + 1 < threads - 1 THEN "fold" ELSE "done"
    /\ out_depth' = 1 + Max(out_depth, Head(chan_depth))
    /\ chan_depth' = Tail(chan_depth)
    /\ nrecv' = nrecv + 1
    /\ UNCHANGED <<inputs, threads, plan, from, ranges, tasks, collecting, panicked,
                   received_depth, sent>>

Collector ==
    \/ SequentialCall
    \/ SequentialFallback
    \/ PlanRanges
    \/ SpawnLess
    \/ SpawnMore
    \/ Recv
    \/ PairSpawn
    \/ PairSkip
    \/ Return
    \/ BinRecvFirst
    \/ BinFold

Sends == \E t \in tasks : ThreadSends(t)
Panics == \E t \in tasks : ThreadPanics(t)

Worker == Sends \/ Panics

Next == Collector \/ Worker

Spec == Init /\ [][Next]_vars

\* every runnable thread is eventually scheduled
FairSpec == Spec /\ WF_vars(Collector) /\ WF_vars(Worker)

(* ---------------------------------------------------------------------- *)
(* What the claims speak of                                                *)
(* ---------------------------------------------------------------------- *)
Parallel == api = LibParallel /\ threads >= 2
Ended == pc \in {"done", "panicked"}

\* the counted form of a character as the specification defines it
IsAscii(ch) == ch \in {"A", "a"}
LowerOf(ch) == IF ch = "A" THEN "a" ELSE IF ch = "SIGMA" THEN "sigma" ELSE ch
FoldSpec(ch, mode) ==
    CASE mode = "Sensitive" -> ch
      [] mode = "InsensitiveASCIIOnly" -> IF IsAscii(ch) THEN LowerOf(ch) ELSE ch
      [] mode = "Insensitive" -> LowerOf(ch)

\* the map that counts every character of t exactly once
Positions(t, mode, c) == {k \in DOMAIN t : FoldSpec(t[k], mode) = c}
ExpectedMap(t, mode) ==
    [c \in {FoldSpec(t[k], mode) : k \in DOMAIN t} |-> Cardinality(Positions(t, mode, c))]

RECURSIVE SumOver(_, _)
SumOver(m, keys) ==
    IF keys = {} THEN 0
    ELSE LET c == CHOOSE x \in keys : TRUE IN m[c] + SumOver(m, keys \ {c})
SumCounts(m) == SumOver(m, DOMAIN m)

\* some character of the text has a lowercase form of several characters
HasMultiCharLowercase == \E k \in DOMAIN text : text[k] = "IDOT"
TaskCanFail == case = "Insensitive" /\ HasMultiCharLowercase

(* ---------------------------------------------------------------------- *)
(* C1: for every text, every threads >= 1 and every mode, in every         *)
(* interleaving, the map character_frequencies_with_n_threads_w_case       *)
(* returns is the map sequential_character_frequencies_w_case returns.     *)
(* ---------------------------------------------------------------------- *)
C1_SameAsSequential ==
    (api = LibParallel /\ threads >= 1 /\ pc = "done")
        => sequential_character_frequencies_w_case(text, case, overflow_checks) = Ok(out)

(* ---------------------------------------------------------------------- *)
(* C2: in a parallel call, once a counting or adding thread has ended      *)
(* without sending, the collector is not left blocked on the channel:      *)
(* until the call has ended in a failure, some thread can still move.      *)
(* ---------------------------------------------------------------------- *)
C2_FailureSurfaces ==
    (Parallel /\ panicked # {}) => (pc = "panicked" \/ ENABLED Next)

(* ---------------------------------------------------------------------- *)
(* C3: when no task fails, a parallel call terminates under fair           *)
(* scheduling: the collector loop is left with waiting_num = 0 and exactly *)
(* one map in received, after exactly threads - 1 adding threads were      *)
(* spawned, and the call returns.                                          *)
(* ---------------------------------------------------------------------- *)
LoopExit == pc = "loop" /\ waiting_num = 0
C3_Terminates ==
    /\ (Parallel /\ ~TaskCanFail /\ pc = "entry") ~> (pc = "done")
    /\ [](Parallel /\ (LoopExit \/ pc = "done") => adders = threads - 1)
    /\ [](Parallel /\ LoopExit => Len(received) = 1)

C3_Witness ==
    Parallel /\ threads >= 3 /\ pc = "done" /\ adders = threads - 1 /\ tasks = {}

(* ---------------------------------------------------------------------- *)
(* C4: for the empty text every path returns the empty map, no index       *)
(* computation fails and no counting thread is spawned.                    *)
(* ---------------------------------------------------------------------- *)
C4_EmptyText ==
    (text = <<>> /\ api # BinParallel)
        => /\ pc # "panicked"
           /\ ranges = <<>>
           /\ (pc = "done" => out = EmptyMap)

(* ---------------------------------------------------------------------- *)
(* C5: for a non-empty text and threads greater than its length, the       *)
(* parallel call returns the map that counts every character exactly once. *)
(* ---------------------------------------------------------------------- *)
C5_ExcessWorkers ==
    (api = LibParallel /\ text # <<>> /\ threads > Len(text) /\ pc = "done")
        => out = ExpectedMap(text, case)

C5_Witness ==
    /\ api = LibParallel /\ pc = "done"
    /\ Len(text) = 2 /\ threads > str_len(text)
    /\ Len(ranges) = threads

(* ---------------------------------------------------------------------- *)
(* C6: a call with threads = 0 has the outcome (returned map or failure)   *)
(* of the call with threads = 1 on the same text and mode, which is the    *)
(* outcome of the sequential pass.                                         *)
(* ---------------------------------------------------------------------- *)
OutcomeWithOneThread ==
    LET r == sequential_character_frequencies_w_case(text, case, overflow_checks)
    IN  IF r.panic THEN <<"panicked", EmptyMap>> ELSE <<"done", r.val>>

C6_ZeroThreads ==
    /\ (api = LibParallel /\ threads = 0) =>
            (pc = "entry" \/ <<pc, out>> = OutcomeWithOneThread)
    /\ (api = LibParallel /\ threads = 1 /\ Ended) => <<pc, out>> = OutcomeWithOneThread

C6_Witness ==
    api = LibParallel /\ threads = 0 /\ pc = "done" /\ Len(text) = 2 /\ out # EmptyMap

(* ---------------------------------------------------------------------- *)
(* C7: whenever a map is returned, its counts sum to the number of         *)
(* characters (not bytes) of the text.                                     *)
(* ---------------------------------------------------------------------- *)
C7_CountConservation ==
    (api # BinParallel /\ pc = "done") => SumCounts(out) = Len(text)

C7_Witness ==
    /\ Parallel /\ pc = "done"
    /\ Len(text) = 2 /\ str_len(text) > Len(text)
    /\ SumCounts(out) = 2

(* ---------------------------------------------------------------------- *)
(* C8: in Insensitive mode a call on a text with a character whose         *)
(* lowercase form is several characters never returns a map, whatever the  *)
(* worker count.                                                           *)
(* ---------------------------------------------------------------------- *)
C8_NoMapOnMultiCharFold ==
    (api # BinParallel /\ TaskCanFail) => pc # "done"

C8_Witness ==
    Parallel /\ TaskCanFail /\ panicked # {} /\ tasks = {} /\ chan = <<>> /\ pc = "loop"

(* ---------------------------------------------------------------------- *)
(* C9: folding is per character and the same in every partition: the       *)
(* returned map counts each character under its form by the mode:          *)
(* unchanged (Sensitive), ASCII letters lowered and non-ASCII unchanged     *)
(* (InsensitiveASCIIOnly), the one-character lowercase (Insensitive). A     *)
(* non-ASCII upper/lower pair stays two keys under InsensitiveASCIIOnly and *)
(* is one key with the summed count under Insensitive.                      *)
(* ---------------------------------------------------------------------- *)
Holds(c) == {k \in DOMAIN text : text[k] = c}
C9_FoldingPerMode ==
    (api # BinParallel /\ pc = "done") =>
        /\ out = ExpectedMap(text, case)
        /\ (case = "InsensitiveASCIIOnly" /\ Holds("SIGMA") # {} /\ Holds("sigma") # {})
                => {"SIGMA", "sigma"} \subseteq DOMAIN out
        /\ (case = "Insensitive" /\ Holds("SIGMA") # {})
                => /\ "SIGMA" \notin DOMAIN out
                   /\ out["sigma"] = Cardinality(Holds("SIGMA") \cup Holds("sigma"))

C9_Witness ==
    /\ Parallel /\ pc = "done" /\ threads = 3
    /\ text = <<"SIGMA", "sigma">>
    /\ case = "Insensitive"
    /\ out = [c \in {"sigma"} |-> 2]

(* ---------------------------------------------------------------------- *)
(* C10: for all length >= 0 and threads >= 1 the planned ranges are        *)
(* pairwise disjoint, gapless, and their sizes sum to the length           *)
(* (text.len(), the length the planner is given).                          *)
(* ---------------------------------------------------------------------- *)
Planned ==
    /\ api = BinParallel \/ Parallel
    /\ pc \in {"loop", "pair", "first", "fold", "done"}

Covered(r) == r.from .. (r.from + r.size - 1)
PairwiseDisjoint(rs) ==
    \A j, k \in DOMAIN rs : j < k => Covered(rs[j]) \cap Covered(rs[k]) = {}
Gapless(rs) ==
    /\ rs # <<>> => rs[1].from = 0
    /\ \A j \in DOMAIN rs : j > 1 => rs[j].from = rs[j - 1].from + rs[j - 1].size

RECURSIVE SumSizes(_)
SumSizes(rs) == IF rs = <<>> THEN 0 ELSE Head(rs).size + SumSizes(Tail(rs))

RangeEnd(r) == r.from + r.size - 1

C12_LighterFirst ==
    (Planned /\ threads <= str_len(text)) =>
        LET length == str_len(text)
            r == length % threads
        IN  /\ Len(ranges) = threads
            /\ \A j \in DOMAIN ranges :
                  ranges[j].size = IF j <= threads - r THEN length \div threads
                                   ELSE length \div threads + 1
            /\ ranges[1].from = 0
            /\ \A j \in DOMAIN ranges : j > 1 => ranges[j].from = RangeEnd(ranges[j - 1]) + 1
            /\ \A t \in tasks : t.kind = "count" =>
                  range_to(t.from, t.size, overflow_checks) = Ok(t.from + t.size - 1)

C12_Witness ==
    /\ Parallel /\ Planned
    /\ str_len(text) = 3 /\ threads = 2
    /\ ranges = <<[from |-> 0, size |-> 1], [from |-> 1, size |-> 2]>>
    /\ \E t \in tasks : t.kind = "count"

(* ---------------------------------------------------------------------- *)
(* C13: for every text, multi-byte characters included, the ranges handed  *)
(* to the counting threads of a parallel call are pairwise disjoint and    *)
(* their union is exactly the character positions 0 .. n - 1, n the number *)
(* of characters of the text; no range is empty of characters when n > 0   *)
(* and threads <= n.                                                       *)
(* ---------------------------------------------------------------------- *)
CoveredBy(rs) == UNION {Covered(rs[j]) : j \in DOMAIN rs}
HoldsCharacters(r) == r.size >= 1 /\ r.from <= Len(text) - 1

\* C13 for the calls with n > 0 and threads <= n, where all its parts apply:
\* the ranges are pairwise disjoint, cover exactly 0 .. n - 1, and each holds
\* a character
C13_RangesCoverCharacters ==
    (Parallel /\ Planned /\ Len(text) > 0 /\ threads <= Len(text)) =>
        /\ PairwiseDisjoint(ranges)
        /\ CoveredBy(ranges) = 0 .. (Len(text) - 1)
        /\ \A j \in DOMAIN ranges : HoldsCharacters(ranges[j])

(* ---------------------------------------------------------------------- *)
(* The two private functions called on their own, as the crate's unit      *)
(* tests call them: add_frequencies on maps a, b, c (held in received) and *)
(* character_frequencies_range on two (from, to) of one text (held in      *)
(* ranges).  The returned maps are kept in chan, in the order of the       *)
(* calls; panicked holds the numbers of the calls that panicked.           *)
(* ---------------------------------------------------------------------- *)
MapKeys == {"a", "SIGMA", "sigma"}
Maps == UNION {[K -> 0..MaxCount] : K \in SUBSET MapKeys}
RangeArgs == [from : 0..MaxLen, to : 0..MaxLen]

UnitInit ==
    /\ api \in {"add_frequencies", "character_frequencies_range"}
    /\ IF api = "add_frequencies"
       THEN /\ received \in [1..3 -> Maps]
            /\ ranges = <<>>
            /\ text = <<>>
            /\ case = "Sensitive"
            /\ overflow_checks = TRUE
       ELSE /\ received = <<>>
            /\ ranges \in [1..2 -> RangeArgs]
            /\ text \in Texts
            /\ case \in CaseSense
            /\ overflow_checks \in BOOLEAN
    /\ threads = 0
    /\ pc = "entry"
    /\ chunk_size = 0
    /\ threads_with_more_data = 0
    /\ threads_with_less_data = 0
    /\ from = 0
    /\ i = 0
    /\ tasks = {}
    /\ chan = <<>>
    /\ waiting_num = 0
    /\ adders = 0
    /\ panicked = {}
    /\ out = EmptyMap
    /\ chan_depth = <<>>
    /\ received_depth = <<>>
    /\ out_depth = 0
    /\ sent = [id \in {} |-> 0]
    /\ nrecv = 0

\* add_frequencies(a, b), (b, a), (add_frequencies(a, b), c), (a, add_frequencies(b, c))
\* and (a, HashMap::new())
AddCall ==
    /\ pc = "entry"
    /\ api = "add_frequencies"
    /\ LET a == received[1]
           b == received[2]
           c == received[3]
       IN  chan' = <<add_frequencies(a, b), add_frequencies(b, a),
                     add_frequencies(add_frequencies(a, b), c),
                     add_frequencies(a, add_frequencies(b, c)),
                     add_frequencies(a, EmptyMap)>>
    /\ pc' = "done"
    /\ UNCHANGED <<inputs, threads, plan, spawning, tasks, collecting, panicked, out,
                   history>>

\* character_frequencies_range(text, from, to, case) on both ranges, then
\* add_frequencies of the two maps when both calls returned
RangeCall ==
    /\ pc = "entry"
    /\ api = "character_frequencies_range"
    /\ LET r1 == character_frequencies_range(text, ranges[1].from, ranges[1].to, case,
                                             overflow_checks)
           r2 == character_frequencies_range(text, ranges[2].from, ranges[2].to, case,
                                             overflow_checks)
       IN  /\ panicked' = {k \in 1..2 : IF k = 1 THEN r1.panic ELSE r2.panic}
           /\ chan' = IF r1.panic /\ r2.panic THEN <<>>
                      ELSE IF r1.panic THEN <<r2.val>>
                      ELSE IF r2.panic THEN <<r1.val>>
                      ELSE <<r1.val, r2.val, add_frequencies(r1.val, r2.val)>>
           /\ pc' = IF r1.panic \/ r2.panic THEN "panicked" ELSE "done"
    /\ UNCHANGED <<inputs, threads, plan, spawning, tasks, collecting, out,
                   history>>

UnitNext == AddCall \/ RangeCall

UnitSpec == UnitInit /\ [][UnitNext]_vars

(* ---------------------------------------------------------------------- *)
(* C14: add_frequencies is commutative and associative and the empty map   *)
(* is its identity: merge(a,b) = merge(b,a),                               *)
(* merge(merge(a,b),c) = merge(a,merge(b,c)), merge(a, empty) = a.         *)
(* ---------------------------------------------------------------------- *)
C14_MergeAlgebra ==
    (api = "add_frequencies" /\ pc = "done") =>
        /\ chan[1] = chan[2]
        /\ chan[3] = chan[4]
        /\ chan[5] = received[1]

C14_Witness ==
    /\ api = "add_frequencies" /\ pc = "done"
    /\ received[1] = [c \in {"a", "sigma"} |-> 1]
    /\ received[2] = [c \in {"a", "SIGMA"} |-> IF c = "a" THEN 0 ELSE 1]
    /\ received[3] = [c \in {"a"} |-> 1]
    /\ chan[3] = [c \in {"a", "SIGMA", "sigma"} |-> IF c = "a" THEN 2 ELSE 1]

(* ---------------------------------------------------------------------- *)
(* C15: for two disjoint ranges of one text counted under one mode,        *)
(* add_frequencies of the two maps is the map of counting the union of the *)
(* ranges directly: every key of either operand is in the result, with the *)
(* sum of the operands' counts.                                            *)
(* ---------------------------------------------------------------------- *)
\* the characters of t at the zero-based positions of P, counted once each
At(t, mode, P, c) == {k \in DOMAIN t : k - 1 \in P /\ FoldSpec(t[k], mode) = c}
ExpectedOn(t, mode, P) ==
    [c \in {FoldSpec(t[k], mode) : k \in {j \in DOMAIN t : j - 1 \in P}} |->
        Cardinality(At(t, mode, P, c))]
CountIn(m, c) == IF c \in DOMAIN m THEN m[c] ELSE 0
Span(r) == r.from .. r.to

TwoDisjointRanges ==
    /\ api = "character_frequencies_range"
    /\ ranges[1].from <= ranges[1].to
    /\ ranges[2].from <= ranges[2].to
    /\ Span(ranges[1]) \cap Span(ranges[2]) = {}

C15_MergeIsUnionCount ==
    (TwoDisjointRanges /\ pc = "done") =>
        /\ chan[3] = ExpectedOn(text, case, Span(ranges[1]) \cup Span(ranges[2]))
        /\ DOMAIN chan[3] = DOMAIN chan[1] \cup DOMAIN chan[2]
        /\ \A c \in DOMAIN chan[3] : chan[3][c] = CountIn(chan[1], c) + CountIn(chan[2], c)

C15_Witness ==
    /\ TwoDisjointRanges /\ pc = "done"
    /\ text = <<"SIGMA", "sigma">> /\ case = "Insensitive"
    /\ ranges = <<[from |-> 1, to |-> 1], [from |-> 0, to |-> 0]>>
    /\ chan[3] = [c \in {"sigma"} |-> 2]

(* ---------------------------------------------------------------------- *)
(* C16: in every interleaving of a parallel call the merge depth of the    *)
(* returned map (the longest chain of adding threads feeding one another)  *)
(* is at most ceil(log2(threads)).                                         *)
(* ---------------------------------------------------------------------- *)
CeilLog2(n) == CHOOSE k \in 0..n : 2 ^ k >= n /\ (k = 0 \/ 2 ^ (k - 1) < n)

C16_LogarithmicDepth ==
    (Parallel /\ pc = "done") => out_depth <= CeilLog2(threads)

\* C16 as the code has it: a sum is paired with whatever arrives next, so the
\* depth of the returned map is between ceil(log2(threads)) and threads - 1,
\* and no map in flight is deeper than threads - 1
C16_LinearDepth ==
    Parallel =>
        /\ \A k \in DOMAIN chan_depth : chan_depth[k] <= threads - 1
        /\ \A k \in DOMAIN received_depth : received_depth[k] <= threads - 1
        /\ \A t \in tasks : t.depth <= threads - 1
        /\ pc = "done" => /\ out_depth <= threads - 1
                          /\ out_depth >= CeilLog2(threads)

C16_Witness ==
    /\ Parallel /\ pc = "done"
    /\ threads = 4
    /\ out_depth = 3
    /\ adders = 3

(* ---------------------------------------------------------------------- *)
(* C17: in a parallel call where no thread fails, every counting thread    *)
(* and every adding thread sends exactly one map on the channel (never     *)
(* zero, never two), and the collector receives 2 * threads - 1 messages   *)
(* in total.                                                               *)
(* ---------------------------------------------------------------------- *)
Spawned == (1..Len(ranges)) \cup ((threads + 1)..(threads + adders))
Running == {t.id : t \in tasks}

C17_OneMessagePerTask ==
    Parallel =>
        /\ \A id \in DOMAIN sent : sent[id] = 1
        /\ DOMAIN sent = Spawned \ (Running \cup panicked)
        /\ nrecv + Len(chan) = Cardinality(DOMAIN sent)
        /\ (pc = "done" /\ panicked = {}) =>
              /\ DOMAIN sent = 1..(2 * threads - 1)
              /\ nrecv = 2 * threads - 1
              /\ chan = <<>>

C17_Witness ==
    /\ Parallel /\ pc = "done" /\ panicked = {}
    /\ threads = 3
    /\ nrecv = 5
    /\ sent = [id \in 1..5 |-> 1]

(* ---------------------------------------------------------------------- *)
(* C18: waiting_num starts at threads, goes down by 1 on each received     *)
(* result and up by 1 on each adding thread spawned; at the top of every   *)
(* loop iteration it equals the number of results still to arrive (the     *)
(* threads running plus the messages sent and not yet received); it never  *)
(* goes below 0.                                                           *)
(* ---------------------------------------------------------------------- *)
StillToArrive == Cardinality(tasks) + Len(chan)

C18_WaitCountIsPending ==
    Parallel =>
        /\ pc \in {"loop", "pair"} => waiting_num = threads - nrecv + adders
        /\ pc = "loop" => waiting_num = StillToArrive
        /\ waiting_num >= 0

(* ---------------------------------------------------------------------- *)
(* C19: whenever the collector holds two maps it pairs them at once into   *)
(* an adding thread: received holds at most 2 maps at any moment and at    *)
(* most 1 between loop iterations, both pops before a merge succeed, and   *)
(* when the loop exits received holds exactly one map, so the final pop    *)
(* does not fail.                                                          *)
(* ---------------------------------------------------------------------- *)
C19_BufferAtMostTwo ==
    Parallel =>
        /\ Len(received) <= 2
        /\ pc = "loop" => Len(received) <= 1
        /\ (pc = "pair" /\ pair_ready(received)) => Len(received) = 2
        /\ LoopExit => Len(received) = 1
        /\ pc # "panicked"

C19_Witness ==
    /\ Parallel /\ LoopExit
    /\ threads = 3
    /\ adders = 2
    /\ Len(received) = 1
    /\ received_depth = <<2>>

(* ---------------------------------------------------------------------- *)
(* C20: for threads >= 3 a parallel call reaches a state in which an       *)
(* adding thread is running (or has completed) while a counting thread has *)
(* not yet sent its result: merging overlaps with counting and does not    *)
(* wait for all counting threads.  The collector pairs every second result *)
(* it receives, whatever is still running; with 2 threads no overlap is    *)
(* possible.                                                               *)
(* ---------------------------------------------------------------------- *)
CountingUnsent == {t \in tasks : t.kind = "count" /\ t.id \notin DOMAIN sent}
Overlap == adders >= 1 /\ CountingUnsent # {}

C20_MergingDoesNotWait ==
    Parallel =>
        /\ pc = "loop" => adders = nrecv \div 2
        /\ Overlap => threads >= 3

C20_Witness ==
    /\ Parallel /\ threads = 3
    /\ \E t \in tasks : t.kind = "add"
    /\ Cardinality(CountingUnsent) = 1
    /\ pc = "loop" /\ nrecv = 2

(* ---------------------------------------------------------------------- *)
(* C21: for every text of n characters and every range with                *)
(* 0 <= from <= to <= n - 1, character_frequencies_range returns the map   *)
(* of the folded characters at exactly the character positions from..to    *)
(* inclusive: its counts sum to to - from + 1, and a range with from = to  *)
(* counts exactly one character.                                           *)
(* ---------------------------------------------------------------------- *)
\* the outcome of the k-th call of RangeCall
CallResult(k) ==
    IF k \in panicked THEN Panic
    ELSE Ok(chan[k - Cardinality({j \in panicked : j < k})])

ValidRange(r) == 0 <= r.from /\ r.from <= r.to /\ r.to <= Len(text) - 1
FoldFails(r) ==
    case = "Insensitive" /\ \E p \in Span(r) : p + 1 \in DOMAIN text /\ text[p + 1] = "IDOT"

RangeCalled == api = "character_frequencies_range" /\ Ended

CountsPositions(r, m) ==
    /\ m = ExpectedOn(text, case, Span(r))
    /\ SumCounts(m) = r.to - r.from + 1
    /\ r.from = r.to => SumCounts(m) = 1

C21_RangeCountsPositions ==
    RangeCalled =>
        \A k \in 1..2 : ValidRange(ranges[k]) =>
            /\ ~CallResult(k).panic
            /\ CountsPositions(ranges[k], CallResult(k).val)

\* C21 with the fold's failure: the call panics exactly when a character of
\* the range has a lowercase form of several characters in Insensitive mode
C21_RangeCountsFoldable ==
    RangeCalled =>
        \A k \in 1..2 : ValidRange(ranges[k]) =>
            IF FoldFails(ranges[k]) THEN CallResult(k).panic
            ELSE /\ ~CallResult(k).panic
                 /\ CountsPositions(ranges[k], CallResult(k).val)

C21_Witness ==
    /\ RangeCalled /\ panicked = {}
    /\ text = <<"SIGMA", "A">> /\ case = "InsensitiveASCIIOnly"
    /\ ranges[1] = [from |-> 1, to |-> 1]
    /\ CallResult(1).val = [c \in {"a"} |-> 1]

(* ---------------------------------------------------------------------- *)
(* C22: character_frequencies_range called with a range that covers no     *)
(* character of the text (a range entirely past the last character, or a   *)
(* degenerate range with to = from - 1) returns the empty map and does not *)
(* fail.                                                                   *)
(* ---------------------------------------------------------------------- *)
PastTheEnd(r) == r.from <= r.to /\ r.from >= Len(text)
Degenerate(r) == r.to = r.from - 1

C22_EmptyRangeReturnsEmpty ==
    RangeCalled =>
        \A k \in 1..2 : (PastTheEnd(ranges[k]) \/ Degenerate(ranges[k])) =>
            /\ ~CallResult(k).panic
            /\ CallResult(k).val = EmptyMap

(* ---------------------------------------------------------------------- *)
(* C23: work accounting of a parallel call: in every reachable state each  *)
(* character position of the text is accounted for exactly once across the *)
(* counting threads that have not yet sent, the maps in the channel, the   *)
(* maps in received and the operands of the running adding threads; the    *)
(* counts of all live maps plus the characters not yet counted sum to the  *)
(* number of characters of the text.                                       *)
(* ---------------------------------------------------------------------- *)
TextPositions == 0 .. (Len(text) - 1)
CharactersAt(P) == Cardinality(P \cap TextPositions)

RECURSIVE SumSeqCounts(_)
SumSeqCounts(ms) == IF ms = <<>> THEN 0 ELSE SumCounts(Head(ms)) + SumSeqCounts(Tail(ms))

\* what a thread still holds: the characters of its range, or its two operands
HeldBy(t) == IF t.kind = "count" THEN CharactersAt(Covered(t))
             ELSE SumCounts(t.a) + SumCounts(t.b)
RECURSIVE SumHeld(_)
SumHeld(ts) ==
    IF ts = {} THEN 0
    ELSE LET t == CHOOSE x \in ts : TRUE IN HeldBy(t) + SumHeld(ts \ {t})

\* positions no counting thread has been spawned for yet
NotHandedOut == {p \in TextPositions : p >= from}
\* positions of the ranges whose counting thread panicked
LostWith(ids) == UNION {Covered(ranges[id]) : id \in ids \cap DOMAIN ranges}

\* no position is with two counting threads, or with one and still to hand out
OncePending ==
    /\ \A t, u \in tasks :
          (t.kind = "count" /\ u.kind = "count" /\ t.id < u.id)
              => Covered(t) \cap Covered(u) = {}
    /\ \A t \in tasks : t.kind = "count" => Covered(t) \cap NotHandedOut = {}

AccountedFor ==
    SumSeqCounts(chan) + SumSeqCounts(received) + SumHeld(tasks)
    + (IF pc = "done" THEN SumCounts(out) ELSE 0) + Cardinality(NotHandedOut)

C23_WorkAccounting ==
    Parallel => OncePending /\ AccountedFor = Len(text)

\* C23 with the failures: what is missing from the accounting is exactly the
\* characters of the ranges whose counting thread panicked
C23_WorkAccountingButFailed ==
    Parallel =>
        /\ OncePending
        /\ AccountedFor + CharactersAt(LostWith(panicked)) = Len(text)
        /\ panicked # {} => TaskCanFail

C23_Witness ==
    /\ Parallel /\ threads = 3 /\ panicked = {}
    /\ text = <<"SIGMA", "sigma">> /\ case = "Insensitive"
    /\ \E t \in tasks : t.kind = "add" /\ HeldBy(t) = 1
    /\ \E t \in tasks : t.kind = "count" /\ HeldBy(t) = 1
    /\ chan = <<>> /\ received = <<>>

(* ---------------------------------------------------------------------- *)
(* C24: in a parallel call where no thread fails, no channel operation     *)
(* fails: every tx.send(..).unwrap() of a worker happens while the         *)
(* receiver is alive, every rx.recv().unwrap() of the collector obtains a  *)
(* message, and when the call returns the channel is empty and no counting *)
(* or adding thread is still to send.                                      *)
(* ---------------------------------------------------------------------- *)
\* the collector is in rx.recv()
InRecv == pc = "loop" /\ waiting_num > 0

C24_ChannelNeverFails ==
    (Parallel /\ ~TaskCanFail) =>
        /\ tasks # {} => receiver_alive
        /\ panicked = {}
        /\ pc # "panicked"
        /\ InRecv => (chan # <<>> \/ tasks # {})
        /\ pc = "done" => (chan = <<>> /\ tasks = {})

C24_Witness ==
    /\ Parallel /\ ~TaskCanFail
    /\ pc = "done" /\ threads = 4
    /\ nrecv = 7 /\ chan = <<>> /\ tasks = {} /\ panicked = {}

(* ---------------------------------------------------------------------- *)
(* C25: the two reductions are equivalent: for every non-empty text and    *)
(* every threads >= 1, main.rs's parallel_character_frequencies (receive   *)
(* threads results and fold them one by one in the calling thread) returns *)
(* the map the library's character_frequencies_with_n_threads returns      *)
(* (adding threads that pair results as they arrive), under every arrival  *)
(* order of the partial results.                                           *)
(* ---------------------------------------------------------------------- *)
\* a call of character_frequencies_with_n_threads or of main.rs's function
DefaultModeCall ==
    /\ api \in {LibParallel, BinParallel}
    /\ case = "InsensitiveASCIIOnly"
    /\ Len(text) > 0 /\ threads >= 1

\* the calling thread waits in rx.recv()
Receiving == pc \in {"first", "fold"} \/ InRecv

\* every call of either function that returns, returns the one map of the
\* text; neither fails, and neither is left waiting for a result no thread
\* will send
C25_SameReduction ==
    DefaultModeCall =>
        /\ pc = "done" => out = ExpectedMap(text, case)
        /\ pc # "panicked" /\ panicked = {}
        /\ Receiving => (chan # <<>> \/ tasks # {})
        /\ (api = BinParallel /\ Planned) => nrecv + Len(chan) + Cardinality(tasks) = threads

C25_Witness ==
    /\ DefaultModeCall /\ api = BinParallel
    /\ pc = "done" /\ threads = 3
    /\ text = <<"A", "a">>
    /\ out = [c \in {"a"} |-> 2]
    /\ out_depth = 2

====
